---- MODULE Spec2Model ----
(***************************************************************************)
(* A model of the govrageremote client (src/client.go): the signed request *)
(* dispatch of VRageRemoteClient.scanResponse under the package-level      *)
(* requestMutex, the public client operations that wrap it, the entity     *)
(* back-references wired by the list operations, the entity mutation       *)
(* methods, and VRageRemoteFloatingObject.GetNearestGridsIf.               *)
(*                                                                         *)
(* Strings are sequences of tokens, so concatenation is \o.  A nil pointer *)
(* is a record whose isNil field is TRUE.  Goroutines calling the client   *)
(* are the elements of Callers.                                            *)
(***************************************************************************)
EXTENDS Integers, Sequences, FiniteSets, TLC

\* ------------------------------------------------------------------ bounds
NumCallers == 2
NumClients == 2
MaxCalls == 2
MaxConcurrentCalls == 3
MaxClock == 2
ClockResolution == 2
MaxItems == 2
MaxGrids == 4
MaxID == 2
BaseSeconds == 1700000000
MaxSeconds == 2
SubSecondParts == 16

Callers == 1..NumCallers
Clients == 1..NumClients
NoOne == 0
NoClient == 0
EntityIDs == 1..MaxID

\* ------------------------------------------------------------- text helpers
Digits == <<"0", "1", "2", "3", "4", "5", "6", "7", "8", "9">>

\* fmt.Sprint / %d of a non-negative integer: its decimal digits.
RECURSIVE Itoa(_)
Itoa(n) == IF n < 10 THEN <<Digits[n + 1]>> ELSE Itoa(n \div 10) \o <<Digits[(n % 10) + 1]>>

CRLF == "\r\n"

\* url.QueryEscape on the characters of a save name: a space becomes "+".
QueryEscape(s) == [i \in 1..Len(s) |-> IF s[i] = " " THEN "+" ELSE s[i]]

\* url.Values.Encode() of the one-key query of SaveAs; <<>> is a nil query.
Encode(query) == <<query[1], "=">> \o QueryEscape(query[2])

\* time.Now().UnixNano(): the clock counts its finest ticks.
UnixNano(t) == t

\* time.Now().UTC().Format(time.RFC1123Z): whole seconds only.
FormatRFC1123Z(t) == <<"date:">> \o Itoa(t \div ClockResolution)

\* ------------------------------------------------------------------ errors
NilError == [type |-> "nil", msg |-> ""]
ErrorsNew(m) == [type |-> "errorString", msg |-> m]
KeyDecodingError == ErrorsNew("error decoding client key")
URLParseError == [type |-> "url.Error", msg |-> "parse"]
TransportError == [type |-> "url.Error", msg |-> "transport"]
BodyReadError == [type |-> "io.Error", msg |-> "unexpected EOF"]
JSONSyntaxError == [type |-> "json.SyntaxError", msg |-> "invalid character"]
JSONTypeError == [type |-> "json.UnmarshalTypeError", msg |-> "cannot unmarshal array"]
MarshalError == [type |-> "json.UnsupportedTypeError", msg |-> "unsupported type"]

\* ---------------------------------------------------- client configuration
BaseURLDefault == <<"/vrageremote/v1">>
GoodAddress == <<"http://localhost:8080">>
BadAddress == <<"http://local", " ", "host:8080">>
Addresses == {GoodAddress, BadAddress}
GoodKey == "RTOLNUrsQ2ZUW1ZDYqkKwA=="
BadKey == "not*base64"
Keys == {GoodKey, BadKey}

\* base64.StdEncoding.DecodeString: fails on a character outside the alphabet.
Base64Decode(key) ==
    IF key = GoodKey THEN [ok |-> TRUE, bytes |-> <<"bytes", key>>]
    ELSE [ok |-> FALSE, bytes |-> <<>>]

\* url.Parse inside http.NewRequest: a space in the host is rejected.
URLParses(u) == \A i \in 1..Len(u) : u[i] # " "

\* hmac.New(sha1.New, key) over msg, then base64: an injective digest term.
HmacSHA1Base64(keyBytes, msg) == <<"hmac-sha1", keyBytes, msg>>

\* ------------------------------------------------------------- operations
\* arg: "none" | "id" (an entity or Steam id, %d in the path) | "name" (the
\* savename query) | "content" (a JSON body); resp: "plain" (the bare
\* VRageRemoteResponse) | "list" (typed, entities wired) | "data" (typed).
Op(method, path, arg, resp) == [method |-> method, path |-> path, arg |-> arg, resp |-> resp]

OpTable ==
    [ Save |-> Op("PATCH", "session", "none", "plain"),
      SaveAs |-> Op("PATCH", "session", "name", "plain"),
      StopServer |-> Op("DELETE", "server", "none", "plain"),
      GetCharacters |-> Op("GET", "session/characters", "none", "list"),
      StopCharacter |-> Op("PATCH", "session/characters/", "id", "plain"),
      GetPlayers |-> Op("GET", "session/players", "none", "list"),
      GetAsteroids |-> Op("GET", "session/asteroids", "none", "list"),
      DeleteAsteroid |-> Op("DELETE", "session/asteroids/", "id", "plain"),
      GetFloatingObjects |-> Op("GET", "session/floatingObjects", "none", "list"),
      DeleteFloatingObject |-> Op("DELETE", "session/floatingObjects/", "id", "plain"),
      StopFloatingObject |-> Op("PATCH", "session/floatingObjects/", "id", "plain"),
      GetGrids |-> Op("GET", "session/grids", "none", "list"),
      DeleteGrid |-> Op("DELETE", "session/grids/", "id", "plain"),
      StopGrid |-> Op("PATCH", "session/grids/", "id", "plain"),
      PowerUpGrid |-> Op("POST", "session/poweredGrids/", "id", "plain"),
      PowerDownGrid |-> Op("DELETE", "session/poweredGrids/", "id", "plain"),
      GetPlanets |-> Op("GET", "session/planets", "none", "list"),
      DeletePlanet |-> Op("DELETE", "session/planets/", "id", "plain"),
      GetChat |-> Op("GET", "session/chat", "none", "data"),
      SendChat |-> Op("POST", "session/chat", "content", "plain"),
      GetServerInfo |-> Op("GET", "server", "none", "data"),
      Ping |-> Op("GET", "server/ping", "none", "plain"),
      PromotePlayer |-> Op("POST", "admin/promotedPlayers/", "id", "plain"),
      DemotePlayer |-> Op("DELETE", "admin/promotedPlayers/", "id", "plain"),
      GetBannedPlayers |-> Op("GET", "admin/bannedPlayers", "none", "data"),
      BanPlayer |-> Op("POST", "admin/bannedPlayers/", "id", "plain"),
      UnbanPlayer |-> Op("DELETE", "admin/bannedPlayers/", "id", "plain"),
      GetKickedPlayers |-> Op("GET", "admin/kickedPlayers", "none", "data"),
      KickPlayer |-> Op("POST", "admin/kickedPlayers/", "id", "plain"),
      UnkickPlayer |-> Op("DELETE", "admin/kickedPlayers/", "id", "plain") ]

OpNames == DOMAIN OpTable
ListOps == {o \in OpNames : OpTable[o].resp = "list"}
DataOps == {o \in OpNames : OpTable[o].resp \in {"list", "data"}}
IdOps == {o \in OpNames : OpTable[o].arg = "id"}

\* ------------------------------------------------------- entity methods
\* The entity kinds are named by the list operation that returns them.
EntityMethodTable ==
    [ GetCharacters |-> [Stop |-> "StopCharacter"],
      GetPlayers |-> [Kick |-> "KickPlayer", Ban |-> "BanPlayer"],
      GetAsteroids |-> [Delete |-> "DeleteAsteroid"],
      GetFloatingObjects |-> [Stop |-> "StopFloatingObject", Delete |-> "DeleteFloatingObject",
                              GetNearestGrids |-> "GetGrids", GetNearestGridsIf |-> "GetGrids"],
      GetGrids |-> [Delete |-> "DeleteGrid", Stop |-> "StopGrid",
                    PowerUp |-> "PowerUpGrid", PowerDown |-> "PowerDownGrid"],
      GetPlanets |-> [Delete |-> "DeletePlanet"] ]

EntityMethods(kind) == DOMAIN EntityMethodTable[kind]
NearestMethods == {"GetNearestGrids", "GetNearestGridsIf"}

\* The predicates a caller passes to GetNearestGridsIf.
AcceptAll(grid) == TRUE
Predicates == {"all", "oddID", "none"}
ApplyPred(pred, grid) ==
    CASE pred = "all" -> AcceptAll(grid)
      [] pred = "oddID" -> grid.id % 2 = 1
      [] OTHER -> FALSE

\* ---------------------------------------------------------- wire format
\* A JSON list element: an object with an identity field and a position, or null.
Origin == <<0, 0, 0>>
Item(id, pos) == [isNull |-> FALSE, id |-> id, pos |-> pos]
NullItem == [isNull |-> TRUE, id |-> 0, pos |-> Origin]

\* The members of the response envelope: absent, null, or an object.
ErrorMember(tag, message) == [tag |-> tag, message |-> message]
DataMember(tag, items) == [tag |-> tag, items |-> items]
Body(kind, error, meta, data) == [kind |-> kind, error |-> error, meta |-> meta, data |-> data]
NoErrorMember == ErrorMember("absent", "")
NoDataMember == DataMember("absent", <<>>)
GarbageBody == Body("garbage", NoErrorMember, "absent", NoDataMember)
NullBody == Body("null", NoErrorMember, "absent", NoDataMember)
ArrayBody == Body("array", NoErrorMember, "absent", NoDataMember)
EmptyBody == Body("object", NoErrorMember, "absent", NoDataMember)

HTTPResponse(status, readOK, body) == [status |-> status, readOK |-> readOK, body |-> body]
NoHTTPResponse == HTTPResponse(0, FALSE, EmptyBody)

\* ------------------------------------------------------- decoded structs
NilEntity == [isNil |-> TRUE, idx |-> 0, kind |-> "", id |-> 0, pos |-> Origin, client |-> NoClient]
Entity(idx, kind, id, pos) ==
    [isNil |-> FALSE, idx |-> idx, kind |-> kind, id |-> id, pos |-> pos, client |-> NoClient]

NilErrorPtr == [isNil |-> TRUE, Message |-> ""]
NilDataPtr == [isNil |-> TRUE, items |-> <<>>]

\* response := &VRageRemoteResponse{} / &VRageRemote...Response{} before decoding:
\* the typed structs embed *VRageRemoteResponse, which starts nil.
NewResponse(resp) == [embedded |-> (resp = "plain"), Error |-> NilErrorPtr, Data |-> NilDataPtr]

DecodeItems(items, kind) ==
    [i \in 1..Len(items) |->
        IF items[i].isNull THEN NilEntity ELSE Entity(i, kind, items[i].id, items[i].pos)]

\* json.Unmarshal(bodyBytes, responseStruct).  The embedded pointer is allocated
\* when a key of the embedded struct ("error", "meta") occurs in the object.
UnmarshalObject(body, resp, kind) ==
    [ embedded |-> (resp = "plain") \/ body.error.tag # "absent" \/ body.meta # "absent",
      Error |-> IF body.error.tag = "object"
                THEN [isNil |-> FALSE, Message |-> body.error.message]
                ELSE NilErrorPtr,
      Data |-> IF resp # "plain" /\ body.data.tag = "object"
               THEN [isNil |-> FALSE, items |-> DecodeItems(body.data.items, kind)]
               ELSE NilDataPtr ]

Unmarshal(body, resp, kind) ==
    CASE body.kind = "garbage" -> [err |-> JSONSyntaxError, value |-> NewResponse(resp)]
      [] body.kind = "array" -> [err |-> JSONTypeError, value |-> NewResponse(resp)]
      [] body.kind = "null" -> [err |-> NilError, value |-> NewResponse(resp)]
      [] OTHER -> [err |-> NilError, value |-> UnmarshalObject(body, resp, kind)]

\* json.Marshal(body) of the string SendChat passes: a quoted JSON string.
Marshal(text) == [err |-> NilError, bytes |-> <<"\"">> \o text \o <<"\"">>]

\* ------------------------------------------------------- chat timestamps
\* timeFromTicks and ticksFromTime convert between time.Time and the ticks of
\* 100 ns since year 1 that the server puts in chat messages.  The numbers
\* involved exceed what the checker's integers hold, so they are kept in parts:
\*   seconds         [epochs, sec]         epochs * 62135596800 + sec
\*   a time.Time     [epochs, sec, nsec]   that many seconds, and nsec ns, after the Unix epoch
\*   a tick count    [epochs, sec, rem]    that many seconds times 10e6, plus rem
\*   a float64       an integral part and a fraction in units of its spacing
\* A float64 has 53 significant bits, so its values in [2^e, 2^(e+1)) are
\* 2^(e-52) apart, and every operation rounds its exact result to the nearest
\* of them, to the even one on a tie.  The times of the model lie in
\* [2^30, 2^31) seconds (2004 to 2038), which fixes e for each operation below.
NanosPerSecond == 1000000000
TicksPerSecond == 10000000
MantissaBits == 52

RECURSIVE Pow2(_)
Pow2(n) == IF n = 0 THEN 1 ELSE 2 * Pow2(n - 1)

\* time.Unix(sec, nsec), which carries whole seconds of nsec into sec.
Unix(seconds, nsec) ==
    [epochs |-> seconds.epochs, sec |-> seconds.sec + (nsec \div NanosPerSecond),
     nsec |-> nsec % NanosPerSecond]

\* The float64 nearest to q + r/d units, half to even; odd tells whether the
\* candidate below, q, has an odd significand.
RoundToEven(q, r, d, odd) ==
    IF 2 * r < d THEN q
    ELSE IF 2 * r > d THEN q + 1
    ELSE IF odd THEN q + 1 ELSE q

\* The quotient and remainder of r * 2^n by d, for r < d, one bit at a time.
RECURSIVE ShiftDivide(_, _, _, _)
ShiftDivide(q, r, d, n) ==
    IF n = 0 THEN [q |-> q, r |-> r]
    ELSE IF 2 * r >= d THEN ShiftDivide(2 * q + 1, 2 * r - d, d, n - 1)
         ELSE ShiftDivide(2 * q, 2 * r, d, n - 1)

\* The quotient and remainder of x * y by d, for x < d, one bit of y at a time.
RECURSIVE MulDivide(_, _, _)
MulDivide(x, y, d) ==
    IF y = 0 THEN [q |-> 0, r |-> 0]
    ELSE LET h == MulDivide(x, y \div 2, d)
             r == 2 * h.r + (IF y % 2 = 1 THEN x ELSE 0)
         IN  [q |-> 2 * h.q + (r \div d), r |-> r % d]

\* float64(value.UnixNano()): sec * 1e9 + nsec lies in [2^60, 2^61), where the
\* spacing is 2^8 ns; 1e9 / 2^8 is even, so the significand is odd when
\* nsec \div 2^8 is.  The result is in seconds and nanoseconds.
Float64OfUnixNano(value) ==
    LET ulp == Pow2(60 - MantissaBits)
        q == value.nsec \div ulp
        n == RoundToEven(q, value.nsec % ulp, ulp, q % 2 = 1)
    IN  Unix([epochs |-> value.epochs, sec |-> value.sec], n * ulp)

\* a / 1e9: the quotient lies in [2^30, 2^31), where the spacing is 2^-22 s.
\* The result is in seconds and units of 2^-22 s.
DivideBy1e9(a) ==
    LET bits == MantissaBits - 30
        qr == ShiftDivide(0, a.nsec, NanosPerSecond, bits)
        f == RoundToEven(qr.q, qr.r, NanosPerSecond, qr.q % 2 = 1)
    IN  [epochs |-> a.epochs, sec |-> a.sec + (f \div Pow2(bits)), frac |-> f % Pow2(bits)]

\* b + 62135596800: the sum lies in [2^35, 2^36), where the spacing is
\* 2^-17 s.  The result is in seconds and units of 2^-17 s.
AddEpoch(b) ==
    LET bits == MantissaBits - 35
        drop == Pow2((MantissaBits - 30) - bits)
        q == b.frac \div drop
        g == RoundToEven(q, b.frac % drop, drop, q % 2 = 1)
    IN  [epochs |-> b.epochs + 1, sec |-> b.sec + (g \div Pow2(bits)),
         frac |-> g % Pow2(bits)]

\* c * 10e6: the product lies in [2^59, 2^60), where the spacing is 2^7
\* ticks.  10e6 / 2^7 and the epoch offset's parity make the significand odd
\* when sec plus the quotient is.  The result is in ticks.
MultiplyBy10e6(c) ==
    LET ulp == Pow2(59 - MantissaBits)
        unit == Pow2(MantissaBits - 35)
        qr == MulDivide(c.frac, TicksPerSecond \div ulp, unit)
        m == RoundToEven(qr.q, qr.r, unit, (c.sec % 2 = 1) # (qr.q % 2 = 1))
        rem == m * ulp
    IN  [epochs |-> c.epochs, sec |-> c.sec + (rem \div TicksPerSecond),
         rem |-> rem % TicksPerSecond]

\* int64(((float64(value.UnixNano()) / 1e9) + 62135596800) * 10e6); the
\* product is a whole number of ticks, which int64() keeps.
ticksFromTime(value) ==
    MultiplyBy10e6(AddEpoch(DivideBy1e9(Float64OfUnixNano(value))))

\* time.Unix(ticks/10e6-62135596800, ticks%10e6)
timeFromTicks(ticks) ==
    Unix([epochs |-> ticks.epochs - 1, sec |-> ticks.sec], ticks.rem)

\* ------------------------------------------------------------------ state
VARIABLES
    now,            \* the wall clock time.Now() reads
    client,         \* the VRageRemoteClient instances: BaseURL, RemoteAddress, Key, nonce
    requestMutex,   \* the holder of the package-level requestMutex, or NoOne
    pc,             \* each caller's position
    call,           \* each caller's current operation and its arguments
    frame,          \* the locals of the caller's scanResponse call
    ret,            \* what the caller's last operation returned
    held,           \* the entities the caller keeps from its last list result
    sent,           \* requests the caller's current operation handed to the transport
    dispatched,     \* scanResponse calls the caller's current operation made
    issued,         \* per client: the nonce strings read, in order
    wire,           \* per client: the nonces of the requests handed to the transport, in order
    ncalls,         \* operations started so far
    stamp,          \* a time, the ticks made of it, and the time made of those
    entry           \* the client's nonce when the caller's scanResponse call took the mutex

vars == <<now, client, requestMutex, pc, call, frame, ret, held, sent, dispatched,
          issued, wire, ncalls, stamp, entry>>

\* No time is being converted.
NoTime == [epochs |-> 0, sec |-> 0, nsec |-> 0]
NoTicks == [epochs |-> 0, sec |-> 0, rem |-> 0]
NoStamp == [stage |-> "none", value |-> NoTime, ticks |-> NoTicks, back |-> NoTime]

NilRequest ==
    [isNil |-> TRUE, method |-> "", url |-> <<>>, auth |-> <<>>, date |-> <<>>,
     contentType |-> "", body |-> <<>>]

NoCall ==
    [op |-> "none", client |-> NoClient, id |-> 0, text |-> <<>>,
     method |-> "", ent |-> NilEntity, pred |-> "all"]

NewFrame ==
    [methodURL |-> <<>>, request |-> NilRequest, date |-> <<>>, nounce |-> <<>>,
     httpResponse |-> NoHTTPResponse, bodyBytes |-> EmptyBody,
     response |-> NewResponse("plain"), err |-> NilError]

NoReturn ==
    [kind |-> "none", err |-> NilError, hasResponse |-> FALSE,
     response |-> NewResponse("plain"), grids |-> <<>>, elapsed |-> FALSE]

\* NewVRageRemoteClient(remoteAddress, key)
NewVRageRemoteClient(remoteAddress, key, t) ==
    [BaseURL |-> BaseURLDefault, RemoteAddress |-> remoteAddress, Key |-> key,
     nonce |-> UnixNano(t)]

\* The clients are constructed one after the other, each reading the clock.
InitWith(addresses, keys, times) ==
    /\ \E addr \in [Clients -> addresses], key \in [Clients -> keys],
          t \in [Clients -> times] :
          /\ \A c, d \in Clients : c <= d => t[c] <= t[d]
          /\ client = [c \in Clients |-> NewVRageRemoteClient(addr[c], key[c], t[c])]
          /\ now = t[NumClients]
    /\ requestMutex = NoOne
    /\ pc = [k \in Callers |-> "idle"]
    /\ call = [k \in Callers |-> NoCall]
    /\ frame = [k \in Callers |-> NewFrame]
    /\ ret = [k \in Callers |-> NoReturn]
    /\ held = [k \in Callers |-> <<>>]
    /\ sent = [k \in Callers |-> 0]
    /\ dispatched = [k \in Callers |-> 0]
    /\ issued = [c \in Clients |-> <<>>]
    /\ wire = [c \in Clients |-> <<>>]
    /\ ncalls = 0
    /\ entry = [k \in Callers |-> 0]

\* An unrecovered panic in any goroutine ends the process.
Crashed == \E k \in Callers : pc[k] = "panic"

\* ------------------------------------------------- scanResponse, by step
\* fmt.Sprintf("session/grids/%d", entityID) and the fixed resources.
Resource(o, id) ==
    IF OpTable[o].arg = "id" THEN <<OpTable[o].path>> \o Itoa(id) ELSE <<OpTable[o].path>>

\* The url.Values of SaveAs; every other operation passes a nil query.
Query(o, text) == IF OpTable[o].arg = "name" THEN <<"savename", text>> ELSE <<>>

\* methodURL := client.BaseURL + "/" + resource (+ "?" + query.Encode())
MethodURL(c, o, id, text) ==
    client[c].BaseURL \o <<"/">> \o Resource(o, id)
        \o (IF Len(Query(o, text)) > 0 THEN <<"?">> \o Encode(Query(o, text)) ELSE <<>>)

\* A client operation starts: its locals are fresh.
Begin(k, c, o, id, text, method, ent, pred) ==
    /\ call' = [call EXCEPT ![k] = [op |-> o, client |-> c, id |-> id, text |-> text,
                                    method |-> method, ent |-> ent, pred |-> pred]]
    /\ frame' = [frame EXCEPT ![k] = [NewFrame EXCEPT !.response = NewResponse(OpTable[o].resp)]]
    /\ ret' = [ret EXCEPT ![k] = NoReturn]
    /\ sent' = [sent EXCEPT ![k] = 0]
    /\ dispatched' = [dispatched EXCEPT ![k] = 0]
    /\ pc' = [pc EXCEPT ![k] = "lock"]
    /\ ncalls' = ncalls + 1
    /\ UNCHANGED <<now, client, requestMutex, held, issued, wire, stamp, entry>>

\* The arguments an operation takes: an id for the paths with %d, a text for
\* SaveAs(name) and SendChat(content), nothing otherwise.
IdsFor(o, ids) == IF OpTable[o].arg = "id" THEN ids ELSE {0}
TextsFor(o, texts) == IF OpTable[o].arg \in {"name", "content"} THEN texts ELSE {<<>>}
PredsFor(m) == IF m = "GetNearestGridsIf" THEN Predicates ELSE {"all"}

\* A caller invokes a public operation of a client, with arguments of its choice.
Call(k, ops, ids, texts, maxCalls) ==
    /\ ~Crashed
    /\ pc[k] = "idle"
    /\ ncalls < maxCalls
    /\ \E c \in Clients, o \in ops :
          \E id \in IdsFor(o, ids), text \in TextsFor(o, texts) :
              Begin(k, c, o, id, text, "", NilEntity, "all")

\* Mutation: the method passes the entity's place in the list, not its identity field.
EntityArg_Index(e, m) == IF m \in NearestMethods THEN 0 ELSE e.idx

\* The identity field an entity method passes on: EntityID, or SteamID of a player.
EntityArg(e, m) == IF m \in NearestMethods THEN 0 ELSE e.id

\* A caller invokes a method of an entity it holds:
\* return grid.client.DeleteGrid(grid.EntityID) and the like.
CallEntity(k, methods, maxCalls) ==
    /\ ~Crashed
    /\ pc[k] = "idle"
    /\ ncalls < maxCalls
    /\ \E i \in 1..Len(held[k]) :
          \E m \in EntityMethods(held[k][i].kind) \cap methods :
              \E pred \in PredsFor(m) :
                  Begin(k, held[k][i].client, EntityMethodTable[held[k][i].kind][m],
                        EntityArg(held[k][i], m), <<>>, m, held[k][i], pred)

\* The labels of scanResponse between Lock() returning and the deferred Unlock().
CriticalLabels == {"url", "date", "nonce", "inc", "sign", "do", "await", "read",
                   "unmarshal", "unlock"}
InCritical(k) == pc[k] \in CriticalLabels

\* Mutation: scanResponse without the mutex.
CanLock_NoMutex(k) == TRUE

\* Mutation: one mutex per client instance instead of the package-level one.
CanLock_PerClient(k) ==
    \A j \in Callers : InCritical(j) => call[j].client # call[k].client

\* requestMutex.Lock() returns when no one holds the mutex.
CanLock(k) == requestMutex = NoOne

Lock(k) ==
    /\ ~Crashed
    /\ pc[k] = "lock"
    /\ CanLock(k)
    /\ requestMutex' = k
    /\ dispatched' = [dispatched EXCEPT ![k] = @ + 1]
    /\ entry' = [entry EXCEPT ![k] = client[call[k].client].nonce]
    /\ pc' = [pc EXCEPT ![k] = "url"]
    /\ UNCHANGED <<now, client, call, frame, ret, held, sent, issued, wire, ncalls, stamp>>

\* Lines 768-786: methodURL, json.Marshal(body), http.NewRequest.
BuildRequest(k) ==
    /\ ~Crashed
    /\ pc[k] = "url"
    /\ LET c == call[k].client
           o == call[k].op
           url == MethodURL(c, o, call[k].id, call[k].text)
           hasBody == OpTable[o].arg = "content"
           m == Marshal(call[k].text)
           target == client[c].RemoteAddress \o url
       IN  IF hasBody /\ m.err # NilError
           THEN /\ frame' = [frame EXCEPT ![k].methodURL = url, ![k].err = m.err]
                /\ pc' = [pc EXCEPT ![k] = "unlock"]
           ELSE IF ~URLParses(target)
           THEN /\ frame' = [frame EXCEPT ![k].methodURL = url, ![k].err = URLParseError]
                /\ pc' = [pc EXCEPT ![k] = "unlock"]
           ELSE /\ frame' = [frame EXCEPT ![k].methodURL = url,
                                ![k].request = [isNil |-> FALSE, method |-> OpTable[o].method,
                                                url |-> target, auth |-> <<>>, date |-> <<>>,
                                                contentType |-> "",
                                                body |-> IF hasBody THEN m.bytes ELSE <<>>]]
                /\ pc' = [pc EXCEPT ![k] = "date"]
    /\ UNCHANGED <<now, client, requestMutex, call, ret, held, sent, dispatched, issued,
                   wire, ncalls, stamp, entry>>

\* Line 788: date := time.Now().UTC().Format(time.RFC1123Z); the clock has moved on.
CaptureDate(k) ==
    /\ ~Crashed
    /\ pc[k] = "date"
    /\ \E t \in now..MaxClock :
          /\ now' = t
          /\ frame' = [frame EXCEPT ![k].date = FormatRFC1123Z(t)]
    /\ pc' = [pc EXCEPT ![k] = "nonce"]
    /\ UNCHANGED <<client, requestMutex, call, ret, held, sent, dispatched, issued, wire, ncalls, stamp, entry>>

\* Line 789: nounce := fmt.Sprint(client.nonce)
ReadNonce(k) ==
    /\ ~Crashed
    /\ pc[k] = "nonce"
    /\ frame' = [frame EXCEPT ![k].nounce = Itoa(client[call[k].client].nonce)]
    /\ issued' = [issued EXCEPT ![call[k].client] = Append(@, Itoa(client[call[k].client].nonce))]
    /\ pc' = [pc EXCEPT ![k] = "inc"]
    /\ UNCHANGED <<now, client, requestMutex, call, ret, held, sent, dispatched, wire, ncalls, stamp, entry>>

\* Mutation: client.nonce++ placed after the key has been decoded.
IncNonce_AfterKey(k) ==
    /\ ~Crashed
    /\ pc[k] = "inc"
    /\ client' = [client EXCEPT ![call[k].client].nonce =
                      IF Base64Decode(client[call[k].client].Key).ok THEN @ + 1 ELSE @]
    /\ pc' = [pc EXCEPT ![k] = "sign"]
    /\ UNCHANGED <<now, requestMutex, call, frame, ret, held, sent, dispatched, issued,
                   wire, ncalls, stamp, entry>>

\* Line 790: client.nonce++
IncNonce(k) ==
    /\ ~Crashed
    /\ pc[k] = "inc"
    /\ client' = [client EXCEPT ![call[k].client].nonce = @ + 1]
    /\ pc' = [pc EXCEPT ![k] = "sign"]
    /\ UNCHANGED <<now, requestMutex, call, frame, ret, held, sent, dispatched, issued,
                   wire, ncalls, stamp, entry>>

\* Mutation: the decoding error is dropped and the raw key is used.
DecodeKey_Lenient(key) == [ok |-> TRUE, bytes |-> <<"bytes", key>>]

\* Line 792: base64.StdEncoding.DecodeString(client.Key)
DecodeKey(key) == Base64Decode(key)

\* Line 797: the string the MAC is computed over.
SignedString(k) == frame[k].methodURL \o <<CRLF>> \o frame[k].nounce \o <<CRLF>>
                      \o frame[k].date \o <<CRLF>>

\* Mutation: the header's nonce is formatted from client.nonce again, after the increment.
HeaderNonce_Reread(k) == Itoa(client[call[k].client].nonce)

\* Line 804: the nonce part of the Authorization header.
HeaderNonce(k) == frame[k].nounce

\* Line 805: the Date header.
HeaderDate(k) == frame[k].date

\* Lines 792-805: decode the key, compute the MAC, set the headers.
Sign(k) ==
    /\ ~Crashed
    /\ pc[k] = "sign"
    /\ LET keyDecoded == DecodeKey(client[call[k].client].Key)
           encodedHash == HmacSHA1Base64(keyDecoded.bytes, SignedString(k))
       IN  IF ~keyDecoded.ok
           THEN /\ frame' = [frame EXCEPT ![k].err = KeyDecodingError]
                /\ pc' = [pc EXCEPT ![k] = "unlock"]
           ELSE /\ frame' = [frame EXCEPT
                                ![k].request.contentType =
                                    IF OpTable[call[k].op].arg = "content"
                                    THEN "application/json" ELSE "",
                                ![k].request.auth = <<HeaderNonce(k), ":", encodedHash>>,
                                ![k].request.date = HeaderDate(k)]
                /\ pc' = [pc EXCEPT ![k] = "do"]
    /\ UNCHANGED <<now, client, requestMutex, call, ret, held, sent, dispatched, issued,
                   wire, ncalls, stamp, entry>>

\* Line 807: client.httpClient.Do(request) hands the request to the transport.
Do(k) ==
    /\ ~Crashed
    /\ pc[k] = "do"
    /\ wire' = [wire EXCEPT ![call[k].client] = Append(@, frame[k].request.auth[1])]
    /\ sent' = [sent EXCEPT ![k] = @ + 1]
    /\ pc' = [pc EXCEPT ![k] = "await"]
    /\ UNCHANGED <<now, client, requestMutex, call, frame, ret, held, dispatched, issued, ncalls, stamp, entry>>

\* Mutation: a failed Do is tried again.
AfterTransportError_Retry(k) == "do"

\* Where scanResponse goes when Do returns an error: it returns the error.
AfterTransportError(k) == "unlock"

\* Do returns an error (connection refused, timeout).
TransportFails(k) ==
    /\ ~Crashed
    /\ pc[k] = "await"
    /\ frame' = [frame EXCEPT ![k].err = TransportError]
    /\ pc' = [pc EXCEPT ![k] = AfterTransportError(k)]
    /\ UNCHANGED <<now, client, requestMutex, call, ret, held, sent, dispatched, issued,
                   wire, ncalls, stamp, entry>>

\* Do returns a response: whatever the server answered.
TransportReturns(k, responses) ==
    /\ ~Crashed
    /\ pc[k] = "await"
    /\ \E r \in responses : frame' = [frame EXCEPT ![k].httpResponse = r]
    /\ pc' = [pc EXCEPT ![k] = "read"]
    /\ UNCHANGED <<now, client, requestMutex, call, ret, held, sent, dispatched, issued,
                   wire, ncalls, stamp, entry>>

\* Line 812: ioutil.ReadAll(response.Body)
ReadAll(k) ==
    /\ ~Crashed
    /\ pc[k] = "read"
    /\ IF frame[k].httpResponse.readOK
       THEN /\ frame' = [frame EXCEPT ![k].bodyBytes = frame[k].httpResponse.body]
            /\ pc' = [pc EXCEPT ![k] = "unmarshal"]
       ELSE /\ frame' = [frame EXCEPT ![k].err = BodyReadError]
            /\ pc' = [pc EXCEPT ![k] = "unlock"]
    /\ UNCHANGED <<now, client, requestMutex, call, ret, held, sent, dispatched, issued,
                   wire, ncalls, stamp, entry>>

\* Line 818: json.Unmarshal(bodyBytes, responseStruct)
Decode(k) ==
    /\ ~Crashed
    /\ pc[k] = "unmarshal"
    /\ LET u == Unmarshal(frame[k].bodyBytes, OpTable[call[k].op].resp, call[k].op)
       IN  frame' = [frame EXCEPT ![k].response = u.value, ![k].err = u.err]
    /\ pc' = [pc EXCEPT ![k] = "unlock"]
    /\ UNCHANGED <<now, client, requestMutex, call, ret, held, sent, dispatched, issued,
                   wire, ncalls, stamp, entry>>

\* Line 766: the deferred requestMutex.Unlock() runs as scanResponse returns.
Unlock(k) ==
    /\ ~Crashed
    /\ pc[k] = "unlock"
    /\ requestMutex' = NoOne
    /\ pc' = [pc EXCEPT ![k] = "post"]
    /\ UNCHANGED <<now, client, call, frame, ret, held, sent, dispatched, issued, wire, ncalls, stamp, entry>>

\* ------------------------------------------- the operations' own code
Failure(err) == [NoReturn EXCEPT !.kind = "err", !.err = err]
Success(response, typed) ==
    [NoReturn EXCEPT !.kind = "ok", !.hasResponse = typed, !.response = response]
Panic == [NoReturn EXCEPT !.kind = "panic"]

\* Mutation: a fixed message instead of the server's.
OpError_Generic(response) == ErrorsNew("request failed")

\* return nil, errors.New(response.Error.Message)
OpError(response) == ErrorsNew(response.Error.Message)

\* Mutation: the loop stops after the first entity.
WireEntities_FirstOnly(items, c) ==
    [i \in 1..Len(items) |-> IF i = 1 THEN [items[i] EXCEPT !.client = c] ELSE items[i]]

\* for _, grid := range response.Data.Grids { grid.client = client }
WireEntities(items, c) == [i \in 1..Len(items) |-> [items[i] EXCEPT !.client = c]]

\* What an operation does with what scanResponse left in err and response: the
\* reads of response.Error and response.Data.<List> dereference nil pointers
\* when the embedded envelope, the data member or a list element is nil.
OpReturn(c, o, err, response) ==
    IF err # NilError THEN Failure(err)
    ELSE IF ~response.embedded THEN Panic
    ELSE IF ~response.Error.isNil THEN Failure(OpError(response))
    ELSE IF OpTable[o].resp = "list"
         THEN IF response.Data.isNil \/ \E i \in 1..Len(response.Data.items) :
                                            response.Data.items[i].isNil
              THEN Panic
              ELSE Success([response EXCEPT !.Data.items = WireEntities(@, c)], TRUE)
    ELSE IF o = "Ping" THEN [Success(response, FALSE) EXCEPT !.elapsed = TRUE]
    ELSE Success(response, OpTable[o].resp = "data")

\* The operation's code after scanResponse returns; for GetNearestGridsIf the
\* body of that method up to its own error check (lines 212-215).
Post(k) ==
    /\ ~Crashed
    /\ pc[k] = "post"
    /\ LET out == OpReturn(call[k].client, call[k].op, frame[k].err, frame[k].response)
       IN  IF out.kind = "panic"
           THEN /\ pc' = [pc EXCEPT ![k] = "panic"]
                /\ ret' = [ret EXCEPT ![k] = out]
                /\ UNCHANGED <<frame, held>>
           ELSE IF call[k].method \in NearestMethods
           THEN IF out.kind = "err"
                THEN /\ pc' = [pc EXCEPT ![k] = "idle"]
                     /\ ret' = [ret EXCEPT ![k] = out]
                     /\ UNCHANGED <<frame, held>>
                ELSE /\ pc' = [pc EXCEPT ![k] = "sort"]
                     /\ frame' = [frame EXCEPT ![k].response = out.response]
                     /\ UNCHANGED <<ret, held>>
           ELSE /\ pc' = [pc EXCEPT ![k] = "idle"]
                /\ ret' = [ret EXCEPT ![k] = out]
                /\ held' = [held EXCEPT ![k] =
                               IF out.kind = "ok" /\ OpTable[call[k].op].resp = "list"
                               THEN out.response.Data.items ELSE @]
                /\ UNCHANGED frame
    /\ UNCHANGED <<now, client, requestMutex, call, sent, dispatched, issued, wire, ncalls, stamp, entry>>

\* ------------------------------------------------------ GetNearestGridsIf
\* math.Sqrt(n) of a small whole number, kept exact as the root of its radicand;
\* float64 square roots of distinct such numbers are distinct and ordered alike.
Sqrt(n) == [sqrt |-> n]
FloatLess(a, b) == a.sqrt < b.sqrt

\* VRagePosition.DistanceTo
DistanceTo(pos, other) ==
    LET x == other[1] - pos[1]
        y == other[2] - pos[2]
        z == other[3] - pos[3]
    IN  Sqrt(x * x + y * y + z * z)

\* Mutation: <= in place of <.
Less_OrEqual(origin, a, b) == ~FloatLess(DistanceTo(origin, b.pos), DistanceTo(origin, a.pos))

\* The less function handed to sort.SliceStable.
Less(origin, a, b) == FloatLess(DistanceTo(origin, a.pos), DistanceTo(origin, b.pos))

\* Lines 217-222: the grids fnc accepts, in the order of the response.
FilterGrids(pred, grids) == SelectSeq(grids, LAMBDA g : ApplyPred(pred, g))

Swap(s, i, j) == [s EXCEPT ![i] = s[j], ![j] = s[i]]

\* sort.SliceStable on at most 20 elements is one insertion sort:
\* for i := a+1; i < b; i++ { for j := i; j > a && less(j, j-1); j-- { swap(j, j-1) } }
RECURSIVE InsertionInner(_, _, _)
InsertionInner(s, j, origin) ==
    IF j > 1 /\ Less(origin, s[j], s[j - 1])
    THEN LET swapped == Swap(s, j, j - 1) IN InsertionInner(swapped, j - 1, origin)
    ELSE s

RECURSIVE InsertionOuter(_, _, _)
InsertionOuter(s, i, origin) ==
    IF i > Len(s) THEN s
    ELSE LET inserted == InsertionInner(s, i, origin) IN InsertionOuter(inserted, i + 1, origin)

SortSliceStable(s, origin) == InsertionOuter(s, 2, origin)

\* Lines 217-228 of GetNearestGridsIf: filter, sort, return.
NearestSort(k) ==
    /\ ~Crashed
    /\ pc[k] = "sort"
    /\ ret' = [ret EXCEPT ![k] =
                  [NoReturn EXCEPT !.kind = "ok",
                                   !.grids = SortSliceStable(
                                       FilterGrids(call[k].pred, frame[k].response.Data.items),
                                       call[k].ent.pos)]]
    /\ pc' = [pc EXCEPT ![k] = "idle"]
    /\ UNCHANGED <<now, client, requestMutex, call, frame, held, sent, dispatched, issued,
                   wire, ncalls, stamp, entry>>

\* ------------------------------------------------------- what servers answer
Messages == {"not found", "denied"}
Statuses == {200, 404}
Texts == {<<"a">>, <<"a", " ", "b">>}

SeqsUpTo(S, n) == UNION {[1..m -> S] : m \in 0..n}

ErrorMembers == {NoErrorMember, ErrorMember("null", "")}
                    \cup {ErrorMember("object", m) : m \in Messages}

DataMembers(lists) == {NoDataMember, DataMember("null", <<>>)}
                          \cup {DataMember("object", l) : l \in lists}

Bodies(lists) ==
    {GarbageBody, NullBody, ArrayBody}
        \cup {Body("object", e, m, d) :
                e \in ErrorMembers, m \in {"absent", "object"}, d \in DataMembers(lists)}

Responses(bodies) ==
    {HTTPResponse(s, TRUE, b) : s \in Statuses, b \in bodies}
        \cup {HTTPResponse(s, FALSE, EmptyBody) : s \in Statuses}

\* The steps of a call that take no input.
Step(k) ==
    \/ Lock(k)
    \/ BuildRequest(k)
    \/ CaptureDate(k)
    \/ ReadNonce(k)
    \/ IncNonce(k)
    \/ Sign(k)
    \/ Do(k)
    \/ TransportFails(k)
    \/ ReadAll(k)
    \/ Decode(k)
    \/ Unlock(k)
    \/ Post(k)

\* ------------------------------------------ concurrent callers (Spec)
\* Callers on several goroutines and clients; the operations that exercise
\* each branch of scanResponse: an id in the path, a query, a body.
ConcurrentOps == {"DeleteGrid", "SaveAs", "SendChat"}
MetaObject == "object"
OkBody == Body("object", NoErrorMember, MetaObject, NoDataMember)
NotFoundBody == Body("object", ErrorMember("object", "not found"), MetaObject, NoDataMember)
CoreResponses == {HTTPResponse(200, TRUE, OkBody), HTTPResponse(404, TRUE, NotFoundBody)}

Init == InitWith({GoodAddress}, Keys, {0}) /\ stamp = NoStamp

Next ==
    \E k \in Callers :
        \/ Call(k, ConcurrentOps, {MaxID}, {<<"a", " ", "b">>}, MaxConcurrentCalls)
        \/ Step(k)
        \/ TransportReturns(k, CoreResponses)

Spec == Init /\ [][Next]_vars

\* ------------------------------------ every operation, one caller (SpecOps)
\* One caller, every operation and entity method, every client configuration;
\* the server answers with a list of two entities, an error envelope, a body
\* that is no JSON, or a body that cannot be read.
TwoEntities == <<Item(2, Origin), Item(1, <<1, 0, 0>>)>>
TwoEntityBody == Body("object", NoErrorMember, MetaObject, DataMember("object", TwoEntities))
OpsResponses ==
    {HTTPResponse(200, TRUE, TwoEntityBody), HTTPResponse(404, TRUE, NotFoundBody),
     HTTPResponse(200, TRUE, GarbageBody), HTTPResponse(200, FALSE, EmptyBody)}
AllMethods == UNION {EntityMethods(kind) : kind \in ListOps}

InitOps == InitWith(Addresses, Keys, {0}) /\ stamp = NoStamp

NextOps ==
    \/ Call(1, OpNames, EntityIDs, Texts, MaxCalls)
    \/ CallEntity(1, AllMethods, MaxCalls)
    \/ Step(1)
    \/ TransportReturns(1, OpsResponses)
    \/ NearestSort(1)

SpecOps == InitOps /\ [][NextOps]_vars

\* ------------------------------- every answer, one call (SpecEnvelope)
\* One call of any operation on a well-configured client, answered by every
\* envelope shape: members absent, null or present, lists with null elements.
EnvelopeItems == {NullItem} \cup {Item(id, Origin) : id \in EntityIDs}
EnvelopeResponses == Responses(Bodies(SeqsUpTo(EnvelopeItems, MaxItems)))

InitEnvelope == InitWith({GoodAddress}, {GoodKey}, {0}) /\ stamp = NoStamp

NextEnvelope ==
    \/ Call(1, OpNames, {MaxID}, {<<"a">>}, 1)
    \/ Step(1)
    \/ TransportReturns(1, EnvelopeResponses)

SpecEnvelope == InitEnvelope /\ [][NextEnvelope]_vars

\* ------------------------------------ nearest grids (SpecNearest)
\* A caller fetches a floating object and then asks it for its nearest grids; the
\* server answers GetGrids with every list of up to MaxGrids grids at the
\* positions below, the i-th grid having EntityId i.
GridPositions == {<<1, 0, 0>>, <<3, 0, 0>>, <<5, 0, 0>>}
ObjectPositions == {Origin, <<4, 0, 1>>}
GridLists ==
    UNION {{[i \in 1..m |-> Item(i, p[i])] : p \in [1..m -> GridPositions]} : m \in 0..MaxGrids}
ListBody(items) == Body("object", NoErrorMember, MetaObject, DataMember("object", items))
NearestResponses(k) ==
    IF call[k].op = "GetGrids"
    THEN {HTTPResponse(200, TRUE, ListBody(l)) : l \in GridLists}
             \cup {HTTPResponse(404, TRUE, NotFoundBody)}
    ELSE {HTTPResponse(200, TRUE, ListBody(<<Item(MaxID, p)>>)) : p \in ObjectPositions}

InitNearest == InitWith({GoodAddress}, {GoodKey}, {0}) /\ stamp = NoStamp

NextNearest ==
    \/ Call(1, {"GetFloatingObjects"}, {0}, {<<>>}, MaxCalls)
    \/ CallEntity(1, NearestMethods, MaxCalls)
    \/ Step(1)
    \/ TransportReturns(1, NearestResponses(1))
    \/ NearestSort(1)

SpecNearest == InitNearest /\ [][NextNearest]_vars

\* ------------------------------------ fair scheduling (SpecLive)
\* Callers on several goroutines, clients with good and bad addresses and
\* keys, calling an operation with a request body and a list operation, and a
\* server whose answers take every exit of scanResponse: success (an envelope
\* with meta and no data), an error envelope, a body that is no JSON, a body
\* that cannot be read; the transport may also fail.  Every goroutine that can take a step eventually
\* does, the transport eventually returns, and a goroutine waiting for
\* requestMutex eventually gets it (sync.Mutex hands the mutex to a waiter that
\* has waited for more than 1 ms).
LiveOps == {"SendChat", "GetGrids"}
LiveResponses ==
    {HTTPResponse(200, TRUE, OkBody), HTTPResponse(404, TRUE, NotFoundBody),
     HTTPResponse(200, TRUE, GarbageBody), HTTPResponse(200, FALSE, EmptyBody)}

InitLive == InitWith(Addresses, Keys, {0}) /\ stamp = NoStamp

NextLive ==
    \E k \in Callers :
        \/ Call(k, LiveOps, {MaxID}, {<<"a">>}, MaxCalls)
        \/ Step(k)
        \/ TransportReturns(k, LiveResponses)

Fairness ==
    \A k \in Callers :
        /\ WF_vars(Step(k) \/ TransportReturns(k, LiveResponses))
        /\ SF_vars(Lock(k))

SpecLive == InitLive /\ [][NextLive]_vars /\ Fairness

\* ------------------------------------ chat timestamps (SpecTicks)
\* A time on a tick boundary is converted to ticks and the ticks back to a
\* time.  The times are whole seconds from BaseSeconds on plus every
\* SubSecondParts-th of a second, one tick, and one tick less than a second.
NanosPerTick == NanosPerSecond \div TicksPerSecond
SubSeconds ==
    {((n * TicksPerSecond) \div SubSecondParts) * NanosPerTick : n \in 0..(SubSecondParts - 1)}
        \cup {NanosPerTick, NanosPerSecond - NanosPerTick}
Times ==
    {[epochs |-> 0, sec |-> BaseSeconds + i, nsec |-> n] :
        i \in 0..MaxSeconds, n \in SubSeconds}

\* ticks := ticksFromTime(value)
ToTicks ==
    /\ stamp.stage = "time"
    /\ stamp' = [stamp EXCEPT !.stage = "ticks", !.ticks = ticksFromTime(stamp.value)]
    /\ UNCHANGED <<now, client, requestMutex, pc, call, frame, ret, held, sent, dispatched,
                   issued, wire, ncalls, entry>>

\* back := timeFromTicks(ticks)
FromTicks ==
    /\ stamp.stage = "ticks"
    /\ stamp' = [stamp EXCEPT !.stage = "back", !.back = timeFromTicks(stamp.ticks)]
    /\ UNCHANGED <<now, client, requestMutex, pc, call, frame, ret, held, sent, dispatched,
                   issued, wire, ncalls, entry>>

InitTicks ==
    /\ InitWith({GoodAddress}, {GoodKey}, {0})
    /\ \E value \in Times : stamp = [NoStamp EXCEPT !.stage = "time", !.value = value]

NextTicks == ToTicks \/ FromTicks

SpecTicks == InitTicks /\ [][NextTicks]_vars

\* ======================================================================
\* Properties
\* ======================================================================
DigitValue(d) == CHOOSE n \in 0..9 : Digits[n + 1] = d

RECURSIVE Atoi(_)
Atoi(s) == IF Len(s) = 0 THEN 0 ELSE Atoi(SubSeq(s, 1, Len(s) - 1)) * 10 + DigitValue(s[Len(s)])

StrictlyIncreasing(nonces) ==
    \A i, j \in 1..Len(nonces) : i < j => Atoi(nonces[i]) < Atoi(nonces[j])

\* The caller's scanResponse call has read a nonce.
HasNonce(k) == Len(frame[k].nounce) > 0

\* C1: for every client, the nonce values read by successive scanResponse calls,
\* in the order the calls pass through the critical section, are strictly
\* increasing, so pairwise distinct: no two calls, of whatever callers, read the
\* same value of client.nonce.
C1_NonceStrictlyIncreasing ==
    /\ \A c \in Clients : StrictlyIncreasing(issued[c])
    /\ \A k, j \in Callers :
          (k # j /\ HasNonce(k) /\ HasNonce(j) /\ call[k].client = call[j].client)
              => frame[k].nounce # frame[j].nounce

\* Two callers have each read a nonce of the same client.
C1_Witness ==
    \E k, j \in Callers :
        /\ k # j
        /\ HasNonce(k) /\ HasNonce(j)
        /\ call[k].client = call[j].client
        /\ Len(issued[call[k].client]) >= 2

\* C2: at most one scanResponse call, over all clients, is between Lock() and
\* return; the caller in any step of the dispatch (URL construction, date, nonce
\* read and increment, signing, Do, awaiting the response, reading and decoding
\* it) is the holder of requestMutex; and each client's requests reach the
\* transport in the order of their nonces.
C2_DispatchSerialized ==
    /\ Cardinality({k \in Callers : InCritical(k)}) <= 1
    /\ \A k \in Callers : InCritical(k) => requestMutex = k
    /\ \A c \in Clients : StrictlyIncreasing(wire[c])

\* A caller awaits the server's answer for one client while a caller of another
\* client waits for the mutex, after an earlier request of the first client.
C2_Witness ==
    \E k, j \in Callers :
        /\ pc[k] = "await" /\ pc[j] = "lock"
        /\ call[k].client # call[j].client
        /\ Len(wire[call[k].client]) >= 2

\* The request the caller's scanResponse call handed to the transport.
Sent(k) == sent[k] >= 1

\* The part of the request target after the remote address.
TargetPath(k) ==
    SubSeq(frame[k].request.url, Len(client[call[k].client].RemoteAddress) + 1,
           Len(frame[k].request.url))

\* base path + "/" + resource (+ "?" + encoded query) of the caller's operation.
ExpectedResourceURL(k) ==
    client[call[k].client].BaseURL \o <<"/">> \o Resource(call[k].op, call[k].id)
        \o (IF OpTable[call[k].op].arg = "name"
            THEN <<"?", "savename", "=">> \o QueryEscape(call[k].text) ELSE <<>>)

\* C8: every request handed to the transport is the one that was signed: its
\* target is the remote address followed by the resource URL, its Authorization
\* header is "<nonce>:<digest>" with the digest over resource URL, CRLF, that
\* nonce, CRLF, the Date header's value, CRLF under the decoded key, the nonce
\* and the date are the ones this call read, and no other call on the same
\* client carries the same nonce.
C8_SentMatchesSigned ==
    \A k \in Callers : Sent(k) =>
        LET r == frame[k].request
            c == call[k].client
        IN  /\ r.url = client[c].RemoteAddress \o ExpectedResourceURL(k)
            /\ TargetPath(k) = ExpectedResourceURL(k)
            /\ r.auth = <<r.auth[1], ":",
                          HmacSHA1Base64(Base64Decode(client[c].Key).bytes,
                                         TargetPath(k) \o <<CRLF>> \o r.auth[1] \o <<CRLF>>
                                             \o r.date \o <<CRLF>>)>>
            /\ r.auth[1] = frame[k].nounce
            /\ r.date = frame[k].date
            /\ \A j \in Callers :
                  (j # k /\ Sent(j) /\ call[j].client = c)
                      => frame[j].request.auth[1] # r.auth[1]

\* Two callers of one client have requests at the transport, signed at
\* different dates, one of them carrying a query.
C8_Witness ==
    \E k, j \in Callers :
        /\ k # j /\ Sent(k) /\ Sent(j)
        /\ pc[k] = "await"
        /\ call[k].client = call[j].client
        /\ call[k].op = "SaveAs"
        /\ frame[k].request.date # frame[j].request.date

\* The caller's operation has returned to it.
Returned(k) == pc[k] = "idle" /\ ret[k].kind # "none"

BadKeyClient(c) == ~Base64Decode(client[c].Key).ok

\* No signature was computed for the caller's call and nothing was handed over.
NothingSigned(k) == sent[k] = 0 /\ Len(frame[k].request.auth) = 0

\* C5 as stated: with a key that is not valid base64, every call returns the
\* key-decoding error, with no signature computed and no request handed to the
\* transport.
C5_AsStated ==
    \A k \in Callers :
        (call[k].op # "none" /\ BadKeyClient(call[k].client)) =>
            /\ NothingSigned(k)
            /\ Returned(k) => ret[k].err = KeyDecodingError

\* C5, amended: with a key that is not valid base64, every call fails with no
\* signature computed and no request handed to the transport (none ever reaches
\* the transport for that client); the error is the key-decoding error when the
\* request can be constructed, and the request-construction error when the
\* remote address followed by the resource URL does not parse.
C5_BadKeyFailsBeforeSigning ==
    /\ \A c \in Clients : BadKeyClient(c) => Len(wire[c]) = 0
    /\ \A k \in Callers :
          (call[k].op # "none" /\ BadKeyClient(call[k].client)) =>
              /\ NothingSigned(k)
              /\ Returned(k) =>
                    /\ ret[k].kind = "err"
                    /\ ret[k].err =
                          IF URLParses(client[call[k].client].RemoteAddress
                                           \o ExpectedResourceURL(k))
                          THEN KeyDecodingError ELSE URLParseError

\* The second call on a client with a bad key has returned the key-decoding error.
C5_Witness ==
    \E k \in Callers :
        /\ Returned(k) /\ BadKeyClient(call[k].client)
        /\ ret[k].err = KeyDecodingError
        /\ Len(issued[call[k].client]) = 2

\* The verb and path each entity mutation method dispatches to.
ExpectedDispatch ==
    [ GetGrids |-> [Delete |-> <<"DELETE", "session/grids/">>,
                    Stop |-> <<"PATCH", "session/grids/">>,
                    PowerUp |-> <<"POST", "session/poweredGrids/">>,
                    PowerDown |-> <<"DELETE", "session/poweredGrids/">>],
      GetPlayers |-> [Kick |-> <<"POST", "admin/kickedPlayers/">>,
                      Ban |-> <<"POST", "admin/bannedPlayers/">>],
      GetCharacters |-> [Stop |-> <<"PATCH", "session/characters/">>],
      GetAsteroids |-> [Delete |-> <<"DELETE", "session/asteroids/">>],
      GetFloatingObjects |-> [Stop |-> <<"PATCH", "session/floatingObjects/">>,
                              Delete |-> <<"DELETE", "session/floatingObjects/">>],
      GetPlanets |-> [Delete |-> <<"DELETE", "session/planets/">>] ]

\* The caller's current operation is a mutation method of an entity.
ViaMutation(k) == call[k].method # "" /\ call[k].method \notin NearestMethods

\* C7: a mutation method of an entity makes exactly one dispatch, through the
\* entity's client, whose verb and resource path are those of the method with
\* the entity's own identity field (EntityID, or SteamID of a player) in the path.
C7_MutationDispatch ==
    \A k \in Callers : ViaMutation(k) =>
        LET e == call[k].ent
            want == ExpectedDispatch[e.kind][call[k].method]
        IN  /\ call[k].client = e.client
            /\ dispatched[k] <= 1
            /\ Returned(k) => dispatched[k] = 1
            /\ pc[k] \notin {"lock", "url"} =>
                  frame[k].methodURL = <<"/vrageremote/v1", "/", want[2]>> \o Itoa(e.id)
            /\ ~frame[k].request.isNil =>
                  /\ frame[k].request.method = want[1]
                  /\ frame[k].request.url =
                        client[e.client].RemoteAddress
                            \o <<"/vrageremote/v1", "/", want[2]>> \o Itoa(e.id)

\* Of two grids a GetGrids call returned, Delete on the second has handed its
\* request to the transport: the second grid's id, not the first's.
C7_Witness ==
    \E k \in Callers :
        /\ Len(held[k]) = 2 /\ held[k][1].id # held[k][2].id
        /\ call[k].method = "Delete" /\ call[k].ent = held[k][2]
        /\ call[k].ent.kind = "GetGrids"
        /\ Sent(k)

\* The error the caller's scanResponse call or the envelope reported.
FailureOf(k) ==
    IF frame[k].err # NilError THEN frame[k].err
    ELSE ErrorsNew(frame[k].response.Error.Message)

\* C9: an invocation of an operation hands at most one request to the transport
\* and calls scanResponse at most once; once scanResponse has an error it only
\* unlocks and returns, and the operation returns that failure.
C9_NoRetries ==
    \A k \in Callers :
        /\ sent[k] <= 1
        /\ dispatched[k] <= 1
        /\ frame[k].err # NilError => pc[k] \in {"unlock", "post", "idle"}
        /\ (Returned(k) /\ ret[k].kind = "err") => ret[k].err = FailureOf(k)

\* A call has returned a transport failure after its one request.
C9_Witness ==
    \E k \in Callers : Returned(k) /\ ret[k].err = TransportError /\ sent[k] = 1

\* scanResponse decoded an envelope whose error member is an object.
EnvelopeHasError(k) == frame[k].err = NilError /\ ~frame[k].response.Error.isNil

\* C3: when the decoded envelope carries a non-null error, the operation does
\* not abort, and returns an error whose message is exactly the message the
\* server sent, with no response, no duration and no entities wired, whatever
\* the HTTP status and whatever else the envelope holds.
C3_EnvelopeErrorSurfaces ==
    \A k \in Callers : EnvelopeHasError(k) =>
        /\ pc[k] \in {"unlock", "post", "idle"}
        /\ Returned(k) =>
              /\ ret[k].kind = "err"
              /\ ret[k].err.type = "errorString"
              /\ ret[k].err.msg = frame[k].httpResponse.body.error.message
              /\ ~ret[k].hasResponse
              /\ ~ret[k].elapsed
              /\ Len(ret[k].grids) = 0
              /\ Len(ret[k].response.Data.items) = 0
              /\ Len(held[k]) = 0

\* GetGrids was answered with status 200 and an envelope holding both an error
\* and a list of grids, and has returned.
C3_Witness ==
    \E k \in Callers :
        /\ Returned(k) /\ EnvelopeHasError(k)
        /\ call[k].op = "GetGrids"
        /\ frame[k].httpResponse.status = 200
        /\ frame[k].httpResponse.body.error.message = "denied"
        /\ Len(frame[k].httpResponse.body.data.items) = MaxItems

\* C4 as stated: no call ends by aborting, and a data-returning operation that
\* returns success returns an envelope whose error is null and whose data
\* payload is non-null.
C4_AsStated ==
    \A k \in Callers :
        /\ pc[k] # "panic"
        /\ (Returned(k) /\ ret[k].kind = "ok" /\ call[k].op \in DataOps) =>
              /\ ret[k].hasResponse
              /\ ret[k].response.embedded
              /\ ret[k].response.Error.isNil
              /\ ~ret[k].response.Data.isNil

\* C6: when a list operation returns success, every entity of the returned
\* list, which is what the caller now holds, has its back-reference set to the
\* client the operation was called on.
C6_BackReferenceIsIssuer ==
    \A k \in Callers :
        (Returned(k) /\ ret[k].kind = "ok" /\ call[k].op \in ListOps) =>
            /\ held[k] = ret[k].response.Data.items
            /\ Len(held[k]) = Len(frame[k].httpResponse.body.data.items)
            /\ \A i \in 1..Len(held[k]) :
                  /\ ~held[k][i].isNil
                  /\ held[k][i].client = call[k].client
                  /\ held[k][i].id = frame[k].httpResponse.body.data.items[i].id

\* A list operation on the second client has returned MaxItems entities.
C6_Witness ==
    \E k \in Callers :
        /\ Returned(k) /\ ret[k].kind = "ok"
        /\ call[k].op \in ListOps
        /\ call[k].client = 2
        /\ Len(held[k]) = MaxItems

\* The square of the distance between two positions.
Dist2(p, q) ==
    (q[1] - p[1]) * (q[1] - p[1]) + (q[2] - p[2]) * (q[2] - p[2])
        + (q[3] - p[3]) * (q[3] - p[3])

\* GetNearestGrids / GetNearestGridsIf has returned its grids to the caller.
NearestReturned(k) == Returned(k) /\ ret[k].kind = "ok" /\ call[k].method \in NearestMethods

\* The squared distances of the fetched grids from the object, in list order.
FetchedDist2(k) ==
    [i \in 1..Len(frame[k].response.Data.items) |->
        Dist2(call[k].ent.pos, frame[k].response.Data.items[i].pos)]

\* C10: the grids GetNearestGridsIf returns are exactly the fetched grids that
\* satisfy the predicate, each once; they are in non-decreasing order of
\* distance from the object; grids at equal distance keep the order of the
\* fetched list; and distances 5, 1, 3, 1 with an accept-all predicate give
\* the 2nd, 4th, 3rd and 1st grid.
C10_NearestStableSorted ==
    \A k \in Callers : NearestReturned(k) =>
        LET fetched == frame[k].response.Data.items
            res == ret[k].grids
            o == call[k].ent.pos
        IN  /\ \A i \in 1..Len(res) :
                  /\ res[i].idx \in 1..Len(fetched)
                  /\ fetched[res[i].idx] = res[i]
            /\ \A i, j \in 1..Len(res) : i # j => res[i].idx # res[j].idx
            /\ {res[i].idx : i \in 1..Len(res)}
                  = {i \in 1..Len(fetched) : ApplyPred(call[k].pred, fetched[i])}
            /\ \A i, j \in 1..Len(res) :
                  i < j =>
                      /\ Dist2(o, res[i].pos) <= Dist2(o, res[j].pos)
                      /\ Dist2(o, res[i].pos) = Dist2(o, res[j].pos) => res[i].idx < res[j].idx
            /\ (FetchedDist2(k) = <<25, 1, 9, 1>> /\ call[k].pred = "all")
                  => [i \in 1..Len(res) |-> res[i].idx] = <<2, 4, 3, 1>>

\* The grids were fetched at distances 5, 1, 3, 1 and all of them returned.
C10_Witness ==
    \E k \in Callers :
        /\ NearestReturned(k)
        /\ call[k].method = "GetNearestGridsIf" /\ call[k].pred = "all"
        /\ FetchedDist2(k) = <<25, 1, 9, 1>>
        /\ Len(ret[k].grids) = 4

\* C11 as stated: a time on a tick boundary that was converted to ticks and
\* back is the time it was.
C11_AsStated == stamp.stage = "back" => stamp.back = stamp.value

\* The caller has invoked an operation that has not returned yet.
Invoked(k) == pc[k] # "idle"

\* C12 as stated: requestMutex is held only by a caller inside scanResponse,
\* so it is released on every exit; a caller that invokes scanResponse does not
\* hold it; and, with fair scheduling and a transport that returns, every
\* caller that has invoked an operation eventually has it return, with a
\* result or an error, whatever happened to the operations of the other
\* callers.
C12_AsStated ==
    /\ [](\A k \in Callers : requestMutex = k => InCritical(k))
    /\ [](\A k \in Callers : pc[k] = "lock" => requestMutex # k)
    /\ \A k \in Callers : Invoked(k) ~> (Returned(k) /\ ret[k].kind \in {"ok", "err"})

\* The caller's scanResponse call got past json.Marshal and http.NewRequest.
PastConstruction(k) == frame[k].err \notin {MarshalError, URLParseError}

\* The caller's scanResponse call is about to return, still holding the mutex.
Exiting(k) == pc[k] = "unlock"

\* C13: a scanResponse call that exits after getting past request
\* construction, whatever it failed on afterwards, has signed with the nonce
\* the client had when the call began and has advanced the client's nonce by
\* exactly one; a call that fails in request construction has read no nonce
\* and leaves the client's nonce as it was; no step of any operation lowers a
\* client's nonce or changes its BaseURL, RemoteAddress or Key.
C13_NonceConsumedOncePerCall ==
    /\ [](\A k \in Callers : Exiting(k) =>
            LET c == call[k].client
            IN  IF PastConstruction(k)
                THEN /\ frame[k].nounce = Itoa(entry[k])
                     /\ client[c].nonce = entry[k] + 1
                ELSE /\ Len(frame[k].nounce) = 0
                     /\ client[c].nonce = entry[k])
    /\ [][\A c \in Clients :
            /\ client'[c].nonce >= client[c].nonce
            /\ client'[c].BaseURL = client[c].BaseURL
            /\ client'[c].RemoteAddress = client[c].RemoteAddress
            /\ client'[c].Key = client[c].Key]_vars

\* A call on a client whose earlier call failed in the transport is exiting
\* with a body-read or JSON error, one nonce further.
C13_Witness ==
    \E k, j \in Callers :
        /\ k # j /\ call[k].client = call[j].client
        /\ Returned(j) /\ ret[j].kind = "err" /\ frame[j].err = TransportError
        /\ Exiting(k)
        /\ frame[k].err \in {BodyReadError, JSONSyntaxError}
        /\ entry[k] = Atoi(frame[j].nounce) + 1
        /\ client[call[k].client].nonce = entry[k] + 1

====
